---- MODULE Spec2Model ----
(***************************************************************************)
(* Model of the ArtyVoiceBot python backend (python-backend-example/main.py): *)
(* the two in-memory event lists, the pydantic webhook models, and the     *)
(* FastAPI handlers that append to, read and clear the lists; and of the    *)
(* integration script (test-integration.py) that drives the bot's control  *)
(* API: a sequential program whose requests have any outcome.              *)
(*                                                                         *)
(* Every handler is an `async def` without an await point, so on the       *)
(* single uvicorn event loop a handler body runs to completion before the  *)
(* next one starts: one action per handler.  Concurrency is the            *)
(* interleaving of the callers' requests (sent, then served in any order). *)
(***************************************************************************)
EXTENDS Integers, Sequences, FiniteSets, TLC

VARIABLES
    status_events,         \* main.py:42  the module-level list
    transcription_events,  \* main.py:43  the module-level list
    now,                   \* the wall clock datetime.utcnow() reads
    pc,                    \* per caller: "idle" or "pending" (request in flight)
    req,                   \* per caller: the last request sent
    resp,                  \* per caller: the response to that request
    trace,                 \* per caller: the handler steps run for that request
    ackLog,                \* per kind: the bodies acknowledged since the last clear
    acked,                 \* number of acknowledged webhooks, per kind
    cleared,               \* sums of the counts the clear calls returned
    sent,                  \* number of requests sent so far
    hpc,                   \* test-integration.py: the statement of main() to run next
    meeting_url,           \* test-integration.py:138  main's local
    main_call_id,          \* test-integration.py:144  main's local call_id
    http,                  \* test-integration.py: the requests sent, with their outcomes
    exit_status            \* test-integration.py: the exit status of the process

backendVars == <<status_events, transcription_events, now, pc, req, resp, trace,
                 ackLog, acked, cleared, sent>>
harnessVars == <<hpc, meeting_url, main_call_id, http, exit_status>>
vars == <<backendVars, harnessVars>>

----------------------------------------------------------------------------
(* Bounds of the model *)

\* total number of requests the callers send in the wide specification
MaxRequests == 2
\* the wall clock takes the values 0..MaxClock
MaxClock == 1
\* number of webhooks sent in the deep specification (its reads are not counted)
DeepMaxEvents == 12
\* total number of requests the callers send in the admin specification
AdminMaxRequests == 4

Callers == {"a", "b"}

\* a Python value that is None or a string, and its truth value
NoValue == [none |-> TRUE, value |-> ""]
StrValue(s) == [none |-> FALSE, value |-> s]
truthy(v) == ~v.none /\ v.value # ""

\* the exit status of a process that has not exited
Running == -1
Clock == 0..MaxClock

----------------------------------------------------------------------------
(* JSON values of a request body: a string, an integer, or an absent key *)

JStr(s) == [t |-> "str", s |-> s, n |-> 0]
JInt(n) == [t |-> "int", s |-> "", n |-> n]
Absent == [t |-> "absent", s |-> "", n |-> 0]

(* The text of a timestamp.  form "iso" is <date>T<time><suffix>, the      *)
(* date-time part named by the instant it denotes, suffix one of "", "Z",  *)
(* "+00:00"; any other text has form "garbage".                            *)
IsoText(instant, suffix) == [form |-> "iso", instant |-> instant, suffix |-> suffix]
Garbage == [form |-> "garbage", instant |-> 0, suffix |-> ""]
Time(text) == [t |-> "time", s |-> "", n |-> 0, text |-> text]

\* pydantic's datetime field: an ISO-8601 string parses, anything else fails
DatetimeOk(v) == v.t = "time" /\ v.text.form = "iso"
\* the datetime parsed: a trailing Z or +00:00 gives an aware UTC datetime
ParseDatetime(v) ==
    [instant |-> v.text.instant,
     tzinfo  |-> IF v.text.suffix \in {"Z", "+00:00"} THEN "UTC" ELSE "None"]
\* datetime.isoformat(): an aware UTC datetime always prints +00:00
isoformat(dt) ==
    IsoText(dt.instant, IF dt.tzinfo = "UTC" THEN "+00:00" ELSE "")
\* datetime.utcnow(): the wall clock as a naive datetime
utcnow == [instant |-> now, tzinfo |-> "None"]

\* pydantic's str field: present and a string (the empty string included)
StrOk(v) == v.t = "str"
\* pydantic's int field: present and an integer (a negative one included)
IntOk(v) == v.t = "int"

----------------------------------------------------------------------------
(* The pydantic models *)

\* callId declared Optional: its absence passes
StatusWebhookErrorsOptionalCallId(raw) ==
    {f \in {"status", "message"} : ~StrOk(raw[f])}
        \cup (IF DatetimeOk(raw.timestamp) THEN {} ELSE {"timestamp"})

\* the fields of a raw status body that fail validation
StatusWebhookErrors(raw) ==
    {f \in {"callId", "status", "message"} : ~StrOk(raw[f])}
        \cup (IF DatetimeOk(raw.timestamp) THEN {} ELSE {"timestamp"})

\* the StatusWebhook instance of a valid raw body
StatusWebhook(raw) ==
    [callId    |-> raw.callId.s,
     status    |-> raw.status.s,
     message   |-> raw.message.s,
     timestamp |-> ParseDatetime(raw.timestamp)]

\* the fields of a raw transcription body that fail validation
TranscriptionWebhookErrors(raw) ==
    {f \in {"callId", "audioFilePath", "speakerId", "speakerName"} : ~StrOk(raw[f])}
        \cup (IF DatetimeOk(raw.timestamp) THEN {} ELSE {"timestamp"})
        \cup (IF IntOk(raw.durationMs) THEN {} ELSE {"durationMs"})

\* the TranscriptionWebhook instance of a valid raw body
TranscriptionWebhook(raw) ==
    [callId        |-> raw.callId.s,
     audioFilePath |-> raw.audioFilePath.s,
     timestamp     |-> ParseDatetime(raw.timestamp),
     speakerId     |-> raw.speakerId.s,
     speakerName   |-> raw.speakerName.s,
     durationMs    |-> raw.durationMs.n]

----------------------------------------------------------------------------
(* The stored events and the helpers of the handlers *)

\* the dict receive_status appends
StatusEvent(webhook) ==
    [callId      |-> webhook.callId,
     status      |-> webhook.status,
     message     |-> webhook.message,
     timestamp   |-> isoformat(webhook.timestamp),
     received_at |-> isoformat(utcnow)]

\* the dict receive_transcription appends
TranscriptionEvent(webhook) ==
    [callId        |-> webhook.callId,
     speakerId     |-> webhook.speakerId,
     speakerName   |-> webhook.speakerName,
     audioFilePath |-> webhook.audioFilePath,
     durationMs    |-> webhook.durationMs,
     timestamp     |-> isoformat(webhook.timestamp),
     received_at   |-> isoformat(utcnow)]

\* a lost update: the event replaces the last one instead of following it
appendOverwritingLast(events, event) ==
    IF events = << >> THEN <<event>> ELSE [events EXCEPT ![Len(events)] = event]

\* list.insert(0, event): the event goes before the stored ones
appendAtFront(events, event) == <<event>> \o events

\* list.append: the event goes to the end of the list
append(events, event) == Append(events, event)

\* the chain comparing the status case-folded
HookForFolded(status) ==
    CASE status \in {"joined", "Joined"} -> <<"bot_joined">>
      [] status = "left"   -> <<"finalize_meeting">>
      [] status = "error"  -> <<"alert">>
      [] OTHER             -> << >>

\* the if / elif / elif chain of receive_status: the hook a status selects
HookFor(status) ==
    CASE status = "joined" -> <<"bot_joined">>
      [] status = "left"   -> <<"finalize_meeting">>
      [] status = "error"  -> <<"alert">>
      [] OTHER             -> << >>

Hooks == {"bot_joined", "finalize_meeting", "alert"}

\* the hook branches placed before the append
StatusStepsHookFirst(webhook) ==
    <<"validate", "log">> \o HookFor(webhook.status) \o <<"append", "return">>

\* the acknowledgement built before the event is stored
StatusStepsAckFirst(webhook) ==
    <<"validate", "log", "return", "append">> \o HookFor(webhook.status)

\* the steps of receive_status on a valid body, in the order of the code
StatusSteps(webhook) ==
    <<"validate", "log", "append">> \o HookFor(webhook.status) \o <<"return">>

\* the steps of receive_transcription on a valid body
TranscriptionSteps(webhook) == <<"validate", "log", "append", "return">>

\* `if call_id:` -- a query parameter that is None or "" is falsy
Truthy(call_id) == call_id.given /\ call_id.value # ""

\* [e for e in events if e["callId"] == call_id]
FilterByCallId(events, id) == SelectSeq(events, LAMBDA e : e.callId = id)

\* the number of events the summary shows
SummaryLimit == 10

\* events[:10], the first ten instead of the last
FirstTen(events) ==
    IF Len(events) <= SummaryLimit THEN events ELSE SubSeq(events, 1, SummaryLimit)

\* events[-10:]
LastTen(events) ==
    IF Len(events) <= SummaryLimit THEN events
    ELSE SubSeq(events, Len(events) - SummaryLimit + 1, Len(events))

Ok(body) == [code |-> 200, body |-> body]
\* FastAPI's answer to a body the model rejects
ValidationError(fields) == [code |-> 422, body |-> [detail |-> fields]]
NoResponse == [code |-> 0, body |-> [detail |-> {}]]
NoRequest == [kind |-> "none"]

----------------------------------------------------------------------------
(* The handlers *)

Serving(c, kind) == pc[c] = "pending" /\ req[c].kind = kind

Answer(c, r, steps) ==
    /\ resp' = [resp EXCEPT ![c] = r]
    /\ trace' = [trace EXCEPT ![c] = steps]
    /\ pc' = [pc EXCEPT ![c] = "idle"]

\* Starlette's answer to an exception that leaves a handler
InternalServerError == [code |-> 500, body |-> [detail |-> {"Internal Server Error"}]]

\* the steps of receive_status when the call in the branch taken raises:
\* no try encloses the branches, so the return is not reached
StatusStepsRaising(webhook) ==
    <<"validate", "log", "append">> \o HookFor(webhook.status) \o <<"raise">>

\* POST /api/arty/status, the call in the hook branch ending as one of
\* outcomes ("returns" or "raises")
ReceiveStatusHooked(c, outcomes) ==
    /\ Serving(c, "status")
    /\ LET errors == StatusWebhookErrors(req[c].raw) IN
       IF errors # {}
       THEN /\ Answer(c, ValidationError(errors), <<"validate">>)
            /\ UNCHANGED <<status_events, ackLog, acked>>
       ELSE LET webhook == StatusWebhook(req[c].raw) IN
            /\ status_events' = append(status_events, StatusEvent(webhook))
            /\ \E outcome \in outcomes :
                  IF outcome = "raises" /\ HookFor(webhook.status) # << >>
                  THEN /\ Answer(c, InternalServerError, StatusStepsRaising(webhook))
                       /\ UNCHANGED <<ackLog, acked>>
                  ELSE /\ Answer(c, Ok([received |-> TRUE, callId |-> webhook.callId]),
                                 StatusSteps(webhook))
                       /\ ackLog' = [ackLog EXCEPT !.status = Append(@, req[c].raw)]
                       /\ acked' = [acked EXCEPT !.status = @ + 1]
    /\ UNCHANGED <<transcription_events, now, req, cleared, sent>>
    /\ UNCHANGED harnessVars

\* POST /api/arty/status as written: the hook branches hold logging calls,
\* which return
ReceiveStatus(c) == ReceiveStatusHooked(c, {"returns"})

\* the append of receive_status pasted into receive_transcription unchanged:
\* the transcription goes to status_events
ReceiveTranscriptionIntoStatus(c) ==
    /\ Serving(c, "transcription")
    /\ LET errors == TranscriptionWebhookErrors(req[c].raw) IN
       IF errors # {}
       THEN /\ Answer(c, ValidationError(errors), <<"validate">>)
            /\ UNCHANGED <<status_events, ackLog, acked>>
       ELSE LET webhook == TranscriptionWebhook(req[c].raw) IN
            /\ status_events' =
                   append(status_events, TranscriptionEvent(webhook))
            /\ Answer(c, Ok([received |-> TRUE, callId |-> webhook.callId,
                             message |-> "Audio will be processed"]),
                      TranscriptionSteps(webhook))
            /\ ackLog' = [ackLog EXCEPT !.transcription = Append(@, req[c].raw)]
            /\ acked' = [acked EXCEPT !.transcription = @ + 1]
    /\ UNCHANGED <<transcription_events, now, req, cleared, sent>>
    /\ UNCHANGED harnessVars

\* POST /api/arty/transcription
ReceiveTranscription(c) ==
    /\ Serving(c, "transcription")
    /\ LET errors == TranscriptionWebhookErrors(req[c].raw) IN
       IF errors # {}
       THEN /\ Answer(c, ValidationError(errors), <<"validate">>)
            /\ UNCHANGED <<transcription_events, ackLog, acked>>
       ELSE LET webhook == TranscriptionWebhook(req[c].raw) IN
            /\ transcription_events' =
                   append(transcription_events, TranscriptionEvent(webhook))
            /\ Answer(c, Ok([received |-> TRUE, callId |-> webhook.callId,
                             message |-> "Audio will be processed"]),
                      TranscriptionSteps(webhook))
            /\ ackLog' = [ackLog EXCEPT !.transcription = Append(@, req[c].raw)]
            /\ acked' = [acked EXCEPT !.transcription = @ + 1]
    /\ UNCHANGED <<status_events, now, req, cleared, sent>>
    /\ UNCHANGED harnessVars

\* the body get_events returns
EventsBody(call_id) ==
    IF Truthy(call_id)
    THEN [callId               |-> call_id.value,
          status_events        |-> FilterByCallId(status_events, call_id.value),
          transcription_events |-> FilterByCallId(transcription_events, call_id.value)]
    ELSE [total_status_events        |-> Len(status_events),
          total_transcription_events |-> Len(transcription_events),
          status_events              |-> LastTen(status_events),
          transcription_events       |-> LastTen(transcription_events)]

\* GET /api/arty/events
GetEvents(c) ==
    /\ Serving(c, "events")
    /\ Answer(c, Ok(EventsBody(req[c].call_id)), <<"return">>)
    /\ UNCHANGED <<status_events, transcription_events, now, req, ackLog, acked,
                   cleared, sent>>
    /\ UNCHANGED harnessVars

\* the counts taken after the lists were rebound instead of before
ClearBodyCountedAfter ==
    [cleared                      |-> TRUE,
     status_events_cleared        |-> 0,
     transcription_events_cleared |-> 0]

\* the two counts returned under each other's key
ClearBodySwapped ==
    [cleared                      |-> TRUE,
     status_events_cleared        |-> Len(transcription_events),
     transcription_events_cleared |-> Len(status_events)]

\* the body clear_events returns
ClearBody ==
    [cleared                      |-> TRUE,
     status_events_cleared        |-> Len(status_events),
     transcription_events_cleared |-> Len(transcription_events)]

\* DELETE /api/arty/events
ClearEvents(c) ==
    /\ Serving(c, "clear")
    /\ status_events' = << >>
    /\ transcription_events' = << >>
    /\ Answer(c, Ok(ClearBody), <<"count", "clear", "log", "return">>)
    /\ ackLog' = [status |-> << >>, transcription |-> << >>]
    /\ cleared' = [calls         |-> cleared.calls + 1,
                   status        |-> cleared.status + ClearBody.status_events_cleared,
                   transcription |-> cleared.transcription
                                        + ClearBody.transcription_events_cleared]
    /\ UNCHANGED <<now, req, acked, sent>>
    /\ UNCHANGED harnessVars

\* GET /
Root(c) ==
    /\ Serving(c, "root")
    /\ Answer(c, Ok([service |-> "Arty Voice Bot Python Backend",
                     status  |-> "running",
                     endpoints |-> [status        |-> "/api/arty/status",
                                    transcription |-> "/api/arty/transcription",
                                    events        |-> "/api/arty/events"]]),
              <<"return">>)
    /\ UNCHANGED <<status_events, transcription_events, now, req, ackLog, acked,
                   cleared, sent>>
    /\ UNCHANGED harnessVars

\* GET /health
Health(c) ==
    /\ Serving(c, "health")
    /\ Answer(c, Ok([status    |-> "healthy",
                     service   |-> "Arty Voice Bot Python Backend",
                     timestamp |-> isoformat(utcnow)]),
              <<"return">>)
    /\ UNCHANGED <<status_events, transcription_events, now, req, ackLog, acked,
                   cleared, sent>>
    /\ UNCHANGED harnessVars

----------------------------------------------------------------------------
(* The environment: the callers and the wall clock *)

\* a caller sends one of the requests R; the requests whose kind is not in
\* free are counted, and at most max of them are sent
Send(c, R, max, free) ==
    /\ pc[c] = "idle"
    /\ \E r \in R :
          /\ r.kind \in free \/ sent < max
          /\ req' = [req EXCEPT ![c] = r]
          /\ sent' = IF r.kind \in free THEN sent ELSE sent + 1
    /\ pc' = [pc EXCEPT ![c] = "pending"]
    /\ resp' = [resp EXCEPT ![c] = NoResponse]
    /\ trace' = [trace EXCEPT ![c] = << >>]
    /\ UNCHANGED <<status_events, transcription_events, now, ackLog, acked, cleared>>
    /\ UNCHANGED harnessVars

\* the wall clock moves; nothing makes utcnow() monotonic
ClockStep ==
    /\ \E t \in Clock \ {now} : now' = t
    /\ UNCHANGED <<status_events, transcription_events, pc, req, resp, trace,
                   ackLog, acked, cleared, sent>>
    /\ UNCHANGED harnessVars

BaseStatus ==
    [callId    |-> JStr("c1"),
     status    |-> JStr("joined"),
     message   |-> JStr("ok"),
     timestamp |-> Time(IsoText(0, "Z"))]

BaseTranscription ==
    [callId        |-> JStr("c1"),
     audioFilePath |-> JStr("rec/a.wav"),
     timestamp     |-> Time(IsoText(0, "Z")),
     speakerId     |-> JStr("u1"),
     speakerName   |-> JStr("Ann"),
     durationMs    |-> JInt(1500)]

CallIdValues == {JStr("c1"), JStr("c2"), JStr(""), Absent}
StatusValues == {JStr(s) : s \in {"joined", "left", "error", "Joined", "ringing"}}
TimestampValues == {Time(IsoText(0, "Z")), Time(IsoText(0, "")), Time(Garbage)}
DurationValues == {JInt(1500), JInt(0), JInt(-1), JStr("abc"), Absent}

\* the status bodies of the wide specification: the base body, one field varied
StatusBodies ==
    {[BaseStatus EXCEPT !.callId = v] : v \in CallIdValues}
        \cup {[BaseStatus EXCEPT !.status = v] : v \in StatusValues}
        \cup {[BaseStatus EXCEPT !.timestamp = v] : v \in TimestampValues}

TranscriptionBodies ==
    {[BaseTranscription EXCEPT !.callId = v] : v \in CallIdValues}
        \cup {[BaseTranscription EXCEPT !.durationMs = v] : v \in DurationValues}
        \cup {[BaseTranscription EXCEPT !.timestamp = v] : v \in TimestampValues}

NoCallId == [given |-> FALSE, value |-> ""]
CallId(id) == [given |-> TRUE, value |-> id]
Queries == {NoCallId} \cup {CallId(id) : id \in {"", "c1", "c2"}}

Requests ==
    {[kind |-> "status", raw |-> b] : b \in StatusBodies}
        \cup {[kind |-> "transcription", raw |-> b] : b \in TranscriptionBodies}
        \cup {[kind |-> "events", call_id |-> q] : q \in Queries}
        \cup {[kind |-> "clear"], [kind |-> "root"], [kind |-> "health"]}

\* the requests of the deep specification: enough appends to pass the limit
DeepRequests ==
    {[kind |-> "status", raw |-> [BaseStatus EXCEPT !.callId = JStr(id)]] :
        id \in {"c1", "c2"}}
        \cup {[kind |-> "transcription", raw |-> BaseTranscription]}
        \cup {[kind |-> "events", call_id |-> q] :
                q \in {NoCallId, CallId("c1"), CallId("c2")}}

\* the requests of the admin specification: appends, reads and clears
AdminRequests ==
    {[kind |-> "status", raw |-> [BaseStatus EXCEPT !.callId = JStr(id)]] :
        id \in {"c1", "c2"}}
        \cup {[kind |-> "transcription", raw |-> BaseTranscription]}
        \cup {[kind |-> "events", call_id |-> q] : q \in {NoCallId, CallId("c1")}}
        \cup {[kind |-> "clear"]}

----------------------------------------------------------------------------
(* The specifications *)

Init ==
    /\ status_events = << >>
    /\ transcription_events = << >>
    /\ now \in Clock
    /\ pc = [c \in Callers |-> "idle"]
    /\ req = [c \in Callers |-> NoRequest]
    /\ resp = [c \in Callers |-> NoResponse]
    /\ trace = [c \in Callers |-> << >>]
    /\ ackLog = [status |-> << >>, transcription |-> << >>]
    /\ acked = [status |-> 0, transcription |-> 0]
    /\ cleared = [calls |-> 0, status |-> 0, transcription |-> 0]
    /\ sent = 0
    /\ hpc = "health"
    /\ meeting_url = ""
    /\ main_call_id = NoValue
    /\ http = << >>
    /\ exit_status = Running

Next ==
    \/ \E c \in Callers : Send(c, Requests, MaxRequests, {})
    \/ \E c \in Callers : ReceiveStatus(c)
    \/ \E c \in Callers : ReceiveTranscription(c)
    \/ \E c \in Callers : GetEvents(c)
    \/ \E c \in Callers : ClearEvents(c)
    \/ \E c \in Callers : Root(c)
    \/ \E c \in Callers : Health(c)
    \/ ClockStep

Spec == Init /\ [][Next]_vars

\* one caller, few kinds of request, enough of them to pass the summary limit
InitDeep == Init /\ now = 0

NextDeep ==
    \/ Send("a", DeepRequests, DeepMaxEvents, {"events"})
    \/ \E c \in Callers : ReceiveStatus(c)
    \/ \E c \in Callers : ReceiveTranscription(c)
    \/ \E c \in Callers : GetEvents(c)

SpecDeep == InitDeep /\ [][NextDeep]_vars

\* two callers whose appends, reads and clears interleave
NextAdmin ==
    \/ \E c \in Callers : Send(c, AdminRequests, AdminMaxRequests, {})
    \/ \E c \in Callers : ReceiveStatus(c)
    \/ \E c \in Callers : ReceiveTranscription(c)
    \/ \E c \in Callers : GetEvents(c)
    \/ \E c \in Callers : ClearEvents(c)

SpecAdmin == Init /\ [][NextAdmin]_vars

\* status webhooks whose hook call may raise, and reads of what they stored
NextHookFault ==
    \/ \E c \in Callers :
          Send(c, {r \in Requests : r.kind \in {"status", "events"}},
               MaxRequests, {})
    \/ \E c \in Callers : ReceiveStatusHooked(c, {"returns", "raises"})
    \/ \E c \in Callers : GetEvents(c)

SpecHookFault == Init /\ [][NextHookFault]_vars

----------------------------------------------------------------------------
(* The integration harness: test-integration.py, a client of the bot's     *)
(* control API                                                             *)

\* the JSON a response body decodes to; "invalid" is a body response.json()
\* cannot decode
JsonInvalid == [form |-> "invalid", keys |-> {}, callId |-> "", items |-> << >>]
JsonObject(keys, id) == [form |-> "object", keys |-> keys, callId |-> id, items |-> << >>]
JsonArray(items) == [form |-> "array", keys |-> {}, callId |-> "", items |-> items]
\* the elements of a JSON array: a string, or an object with these keys
StrItem == [t |-> "str", keys |-> {}]
ObjItem(keys) == [t |-> "object", keys |-> keys]

\* what requests.get / requests.post ends as: a response, or an exception
Response(code, body) == [raised |-> "", status_code |-> code, body |-> body]
Raised(e) == [raised |-> e, status_code |-> 0, body |-> JsonInvalid]
Exceptions == {Raised("ConnectionError"), Raised("Timeout")}

\* what a block of Python ends as: a value returned, or an exception leaving it
Returns(v) == [raised |-> FALSE, value |-> v]
Raises == [raised |-> TRUE, value |-> FALSE]

JoinKeys == {"callId", "scenarioId", "status"}
CallKeys == {"callId", "status", "joinedAt"}
\* get_audio_files prints the first five file names
ShownFiles == 5
FirstShown(files) ==
    SubSeq(files, 1, IF Len(files) < ShownFiles THEN Len(files) ELSE ShownFiles)

\* the body of the try block of test_health
HealthTry(o) ==
    IF o.raised # "" THEN Raises ELSE Returns(o.status_code = 200)

\* test_health: both except clauses return False
test_health(o) ==
    IF HealthTry(o).raised THEN Returns(FALSE) ELSE HealthTry(o)

\* the try block of join_meeting reading callId whatever the status code
JoinTryAnyStatus(o) ==
    IF o.raised # "" \/ o.body.form # "object" \/ ~(JoinKeys \subseteq o.body.keys)
    THEN Raises
    ELSE Returns(StrValue(o.body.callId))

\* the body of the try block of join_meeting: on 200 the body is decoded and
\* its callId, scenarioId and status are read before callId is returned
JoinTry(o) ==
    IF o.raised # "" THEN Raises
    ELSE IF o.status_code = 200
         THEN IF o.body.form # "object" \/ ~(JoinKeys \subseteq o.body.keys)
              THEN Raises
              ELSE Returns(StrValue(o.body.callId))
         ELSE Returns(NoValue)

\* join_meeting with the except clause of JoinTryAnyStatus
join_meeting_any_status(o) ==
    IF JoinTryAnyStatus(o).raised THEN Returns(NoValue) ELSE JoinTryAnyStatus(o)

\* join_meeting: except Exception returns None
join_meeting(o) ==
    IF JoinTry(o).raised THEN Returns(NoValue) ELSE JoinTry(o)

\* the body of the try block of get_active_calls: on 200 every element of
\* the decoded body is indexed by callId, status and joinedAt
ActiveTry(o) ==
    IF o.raised # "" THEN Raises
    ELSE IF o.status_code = 200
         THEN IF \/ o.body.form = "invalid"
                 \/ o.body.form = "object" /\ o.body.keys # {}
                 \/ \E i \in DOMAIN o.body.items :
                       \/ o.body.items[i].t # "object"
                       \/ ~(CallKeys \subseteq o.body.items[i].keys)
              THEN Raises
              ELSE Returns(o.body.items)
         ELSE Returns(<< >>)

\* get_active_calls: except Exception returns []
get_active_calls(o) ==
    IF ActiveTry(o).raised THEN Returns(<< >>) ELSE ActiveTry(o)

\* the body of the try block of leave_meeting
LeaveTry(o) ==
    IF o.raised # "" THEN Raises ELSE Returns(o.status_code = 200)

\* leave_meeting: except Exception returns False
leave_meeting(o) ==
    IF LeaveTry(o).raised THEN Returns(FALSE) ELSE LeaveTry(o)

\* the body of the try block of get_audio_files: on 200 the decoded body is
\* sliced and the base name of each of the first five elements is taken
AudioTry(o) ==
    IF o.raised # "" THEN Raises
    ELSE IF o.status_code = 200
         THEN IF \/ o.body.form # "array"
                 \/ \E i \in DOMAIN FirstShown(o.body.items) :
                       FirstShown(o.body.items)[i].t # "str"
              THEN Raises
              ELSE Returns(o.body.items)
         ELSE Returns(<< >>)

\* get_audio_files without its except clause
get_audio_files_uncaught(o) == AudioTry(o)

\* get_audio_files: except Exception returns []
get_audio_files(o) ==
    IF AudioTry(o).raised THEN Returns(<< >>) ELSE AudioTry(o)

\* a line typed at the prompt: white space, text without white space at its
\* ends, white space; str.strip() keeps the text
Line(lead, text, trail) == [lead |-> lead, text |-> text, trail |-> trail]
strip(line) == line.text
EndOfFile == [eof |-> TRUE]

\* the outcomes the bot and the network can give each request
HealthOutcomes == {Response(200, JsonInvalid), Response(503, JsonInvalid)} \cup Exceptions
JoinOutcomes ==
    {Response(200, JsonObject(JoinKeys, id)) : id \in {"c1", ""}}
        \cup {Response(200, JsonObject({"callId"}, "c1")),
              Response(200, JsonInvalid),
              Response(200, JsonArray(<< >>)),
              Response(500, JsonObject(JoinKeys, "c1")),
              Response(500, JsonInvalid)}
        \cup Exceptions
ActiveOutcomes ==
    {Response(200, JsonArray(items)) :
        items \in {<< >>, <<ObjItem(CallKeys)>>, <<ObjItem({"callId"})>>, <<StrItem>>}}
        \cup {Response(200, JsonInvalid), Response(500, JsonInvalid)}
        \cup Exceptions
LeaveOutcomes == {Response(200, JsonInvalid), Response(404, JsonInvalid)} \cup Exceptions
SixFiles == [i \in 1..(ShownFiles + 1) |-> IF i > ShownFiles THEN ObjItem({}) ELSE StrItem]
AudioOutcomes ==
    {Response(200, JsonArray(items)) :
        items \in {<< >>, <<StrItem>>, <<ObjItem({})>>, SixFiles}}
        \cup {Response(200, JsonObject({}, "")), Response(200, JsonInvalid),
              Response(500, JsonInvalid)}
        \cup Exceptions
Lines ==
    {Line("", "", ""), Line(" ", "", ""),
     Line("", "https://teams/m1", ""), Line(" ", "https://teams/m1", " ")}

\* one request made and how it ended
Request(name, arg, o) ==
    http' = Append(http, [request |-> name, arg |-> arg, outcome |-> o])

\* an exception leaves main: traceback, exit status 1
Crash == hpc' = "crashed" /\ exit_status' = 1

\* main: if not test_health(): sys.exit(1)
TestHealth ==
    /\ hpc = "health"
    /\ \E o \in HealthOutcomes :
          /\ Request("health", "", o)
          /\ IF test_health(o).raised THEN Crash
             ELSE IF test_health(o).value
                  THEN hpc' = "prompt" /\ UNCHANGED exit_status
                  ELSE hpc' = "exited" /\ exit_status' = 1
    /\ UNCHANGED <<meeting_url, main_call_id>>
    /\ UNCHANGED backendVars

\* main: meeting_url = input(...).strip(); input raises EOFError when the
\* standard input is at its end, and nothing in main catches it
Prompt ==
    /\ hpc = "prompt"
    /\ \E line \in Lines \cup {EndOfFile} :
          IF line = EndOfFile
          THEN Crash /\ UNCHANGED meeting_url
          ELSE /\ meeting_url' = strip(line)
               /\ hpc' = IF strip(line) = "" THEN "audio" ELSE "join"
               /\ UNCHANGED exit_status
    /\ UNCHANGED <<main_call_id, http>>
    /\ UNCHANGED backendVars

\* main: call_id = join_meeting(meeting_url); if call_id:
JoinMeeting ==
    /\ hpc = "join"
    /\ \E o \in JoinOutcomes :
          /\ Request("join", meeting_url, o)
          /\ IF join_meeting(o).raised
             THEN Crash /\ UNCHANGED main_call_id
             ELSE /\ main_call_id' = join_meeting(o).value
                  /\ hpc' = IF truthy(join_meeting(o).value) THEN "sleep" ELSE "audio"
                  /\ UNCHANGED exit_status
    /\ UNCHANGED meeting_url
    /\ UNCHANGED backendVars

\* main: time.sleep(10)
Sleep ==
    /\ hpc = "sleep"
    /\ hpc' = "active"
    /\ UNCHANGED <<meeting_url, main_call_id, http, exit_status>>
    /\ UNCHANGED backendVars

\* main: get_active_calls(), its result dropped
GetActiveCalls ==
    /\ hpc = "active"
    /\ \E o \in ActiveOutcomes :
          /\ Request("active", "", o)
          /\ IF get_active_calls(o).raised THEN Crash
             ELSE hpc' = "leave" /\ UNCHANGED exit_status
    /\ UNCHANGED <<meeting_url, main_call_id>>
    /\ UNCHANGED backendVars

\* main: leave_meeting(call_id), its result dropped
LeaveMeeting ==
    /\ hpc = "leave"
    /\ \E o \in LeaveOutcomes :
          /\ Request("leave", main_call_id.value, o)
          /\ IF leave_meeting(o).raised THEN Crash
             ELSE hpc' = "audio" /\ UNCHANGED exit_status
    /\ UNCHANGED <<meeting_url, main_call_id>>
    /\ UNCHANGED backendVars

\* main: get_audio_files(), its result dropped
GetAudioFiles ==
    /\ hpc = "audio"
    /\ \E o \in AudioOutcomes :
          /\ Request("audio", "", o)
          /\ IF get_audio_files(o).raised THEN Crash
             ELSE hpc' = "complete" /\ UNCHANGED exit_status
    /\ UNCHANGED <<meeting_url, main_call_id>>
    /\ UNCHANGED backendVars

\* main: print("Test complete!") and the return of main
TestComplete ==
    /\ hpc = "complete"
    /\ hpc' = "done"
    /\ exit_status' = 0
    /\ UNCHANGED <<meeting_url, main_call_id, http>>
    /\ UNCHANGED backendVars

NextHarness ==
    \/ TestHealth
    \/ Prompt
    \/ JoinMeeting
    \/ Sleep
    \/ GetActiveCalls
    \/ LeaveMeeting
    \/ GetAudioFiles
    \/ TestComplete

SpecHarness == Init /\ [][NextHarness]_vars

\* the interpreter runs main to its end: a step that can be taken is taken
SpecHarnessFair == Init /\ [][NextHarness]_vars /\ WF_vars(NextHarness)

----------------------------------------------------------------------------
(* Vocabulary of the properties *)

\* caller c's request of this kind is served in this step
Served(c, kind) == Serving(c, kind) /\ pc'[c] = "idle"

\* the point in time a timestamp text denotes: Z and +00:00 name the same zone
PointInTime(text) == [instant |-> text.instant, aware |-> text.suffix # ""]

\* a stored event carries the fields of the body sent, and a receive time
Carries(kind, e, raw) ==
    /\ e.callId = raw.callId.s
    /\ e.timestamp.form = "iso"
    /\ PointInTime(e.timestamp) = PointInTime(raw.timestamp.text)
    /\ e.received_at.form = "iso"
    /\ e.received_at.instant \in Clock
    /\ IF kind = "status"
       THEN /\ e.status = raw.status.s
            /\ e.message = raw.message.s
       ELSE /\ e.audioFilePath = raw.audioFilePath.s
            /\ e.speakerId = raw.speakerId.s
            /\ e.speakerName = raw.speakerName.s
            /\ e.durationMs = raw.durationMs.n

\* how many of the events carry the body, and how often the body was acknowledged
Carrying(kind, events, raw) ==
    Cardinality({j \in DOMAIN events : Carries(kind, events[j], raw)})
Times(log, raw) == Cardinality({j \in DOMAIN log : log[j] = raw})

Kinds == {"status", "transcription"}
FilteredKeys == {"callId", "status_events", "transcription_events"}
SummaryKeys == {"total_status_events", "total_transcription_events",
                "status_events", "transcription_events"}
ListOf(body, kind) ==
    IF kind = "status" THEN body.status_events ELSE body.transcription_events
StoreOf(kind) ==
    IF kind = "status" THEN status_events ELSE transcription_events

----------------------------------------------------------------------------
(* C1 *)

C1_View(body, id, log) ==
    /\ DOMAIN body = FilteredKeys
    /\ body.callId = id
    /\ \A kind \in Kinds : \A i \in DOMAIN log[kind] :
          log[kind][i].callId.s = id =>
              Carrying(kind, ListOf(body, kind), log[kind][i]) = Times(log[kind], log[kind][i])

\* C1: after a webhook body p was acknowledged and no clear followed,
\* getEvents(p.callId) answers the filtered view {callId, status_events,
\* transcription_events}, in which an event carrying p's fields and a receive
\* time appears once per acknowledged receive of p -- whatever string p.callId is.
C1_ReceiveThenGet ==
    [][\A c \in Callers :
          (/\ Served(c, "events")
           /\ req[c].call_id.given
           /\ \E kind \in Kinds : \E i \in DOMAIN ackLog[kind] :
                 ackLog[kind][i].callId.s = req[c].call_id.value)
          => C1_View(resp'[c].body, req[c].call_id.value, ackLog)]_vars

----------------------------------------------------------------------------
(* C2 *)

C2_Tail(kind, shown, log) ==
    LET N == Len(log)
        m == IF N < 10 THEN N ELSE 10
    IN  /\ Len(shown) = m
        /\ \A i \in 1..m : Carries(kind, shown[i], log[N - m + i])

C2_View(body, log) ==
    /\ DOMAIN body = SummaryKeys
    /\ body.total_status_events = Len(log.status)
    /\ body.total_transcription_events = Len(log.transcription)
    /\ C2_Tail("status", body.status_events, log.status)
    /\ C2_Tail("transcription", body.transcription_events, log.transcription)

\* C2: after N events of a kind were appended since the last clear, getEvents()
\* without a callId reports N as the total of that kind and lists exactly the
\* last min(N, 10) of them, oldest first; for each kind independently.
C2_RecentSummary ==
    [][\A c \in Callers :
          (Served(c, "events") /\ ~req[c].call_id.given)
          => C2_View(resp'[c].body, ackLog)]_vars

\* a summary was answered with 11 status events stored: 10 shown, the oldest
\* (of another call than the rest) dropped
C2_Witness ==
    \E c \in Callers :
        /\ pc[c] = "idle" /\ req[c].kind = "events" /\ ~req[c].call_id.given
        /\ resp[c].code = 200
        /\ resp[c].body.total_status_events = 11
        /\ Len(resp[c].body.status_events) = 10
        /\ status_events[1].callId = "c2"
        /\ \A i \in 1..10 : resp[c].body.status_events[i].callId = "c1"
        /\ resp[c].body.total_transcription_events = 1

----------------------------------------------------------------------------
(* C3 *)

\* C3: clearEvents, called with S status and T transcription events stored,
\* answers {cleared, S, T} and leaves both lists empty; a getEvents() served
\* after a clear with no append in between reports both totals as zero and
\* both lists empty.
C3_ClearAll ==
    [][\A c \in Callers :
          /\ Served(c, "clear") =>
                /\ resp'[c].body =
                       [cleared                      |-> TRUE,
                        status_events_cleared        |-> Len(ackLog.status),
                        transcription_events_cleared |-> Len(ackLog.transcription)]
                /\ status_events' = << >>
                /\ transcription_events' = << >>
          /\ (/\ Served(c, "events") /\ ~req[c].call_id.given
              /\ cleared.calls > 0
              /\ ackLog.status = << >> /\ ackLog.transcription = << >>) =>
                resp'[c].body =
                    [total_status_events        |-> 0,
                     total_transcription_events |-> 0,
                     status_events              |-> << >>,
                     transcription_events       |-> << >>]]_vars

\* a clear answered (1, 1), and a later getEvents() of the same caller zero
C3_Witness ==
    /\ cleared = [calls |-> 1, status |-> 1, transcription |-> 1]
    /\ acked = [status |-> 1, transcription |-> 1]
    /\ \E c \in Callers :
          /\ pc[c] = "idle" /\ req[c].kind = "events" /\ ~req[c].call_id.given
          /\ resp[c].code = 200
          /\ resp[c].body.total_status_events = 0
          /\ resp[c].body.total_transcription_events = 0
    /\ \E c \in Callers :
          /\ pc[c] = "idle" /\ req[c].kind = "clear"
          /\ resp[c].code = 200
          /\ resp[c].body.status_events_cleared = 1
          /\ resp[c].body.transcription_events_cleared = 1

----------------------------------------------------------------------------
(* C4 *)

\* a body with a required key absent, an unparseable timestamp, or a
\* durationMs that is no integer
Malformed(raw) ==
    \/ \E f \in DOMAIN raw : raw[f].t = "absent"
    \/ raw.timestamp.t = "time" /\ raw.timestamp.text.form = "garbage"
    \/ "durationMs" \in DOMAIN raw /\ raw.durationMs.t = "str"

HooksIn(steps) == SelectSeq(steps, LAMBDA x : x \in Hooks)

\* C4: a webhook request whose body is malformed is answered with the
\* validation error, both lists are what they were before the request, and
\* no hook ran.
C4_RejectedUnchanged ==
    [][\A c \in Callers : \A kind \in Kinds :
          (Served(c, kind) /\ Malformed(req[c].raw)) =>
              /\ resp'[c].code = 422
              /\ resp'[c].body.detail # {}
              /\ status_events' = status_events
              /\ transcription_events' = transcription_events
              /\ HooksIn(trace'[c]) = << >>]_vars

\* a status body without callId was rejected while an event was stored
C4_Witness ==
    \E c \in Callers :
        /\ pc[c] = "idle" /\ req[c].kind = "status"
        /\ req[c].raw.callId = Absent
        /\ resp[c] = ValidationError({"callId"})
        /\ Len(status_events) = 1
        /\ acked.status = 1

----------------------------------------------------------------------------
(* C5 *)

\* C5: with no clear, once no webhook request is in flight, each list is as
\* long as the number of acknowledged appends of its kind, and every
\* acknowledged body is carried by as many stored events as it was
\* acknowledged times -- in every interleaving of the callers.
C5_NoLostAppend ==
    (/\ cleared.calls = 0
     /\ \A c \in Callers : ~(pc[c] = "pending" /\ req[c].kind \in Kinds))
    => \A kind \in Kinds :
          /\ Len(StoreOf(kind)) = acked[kind]
          /\ \A i \in DOMAIN ackLog[kind] :
                Carrying(kind, StoreOf(kind), ackLog[kind][i])
                    = Times(ackLog[kind], ackLog[kind][i])

\* both callers' appends were acknowledged, b's stored before a's, and a
\* third append followed
C5_Witness ==
    /\ cleared.calls = 0
    /\ \A c \in Callers : pc[c] = "idle" /\ req[c].kind = "status"
    /\ acked.status = 3
    /\ Len(status_events) = 3
    /\ req["a"].raw.callId.s = "c1" /\ req["b"].raw.callId.s = "c2"
    /\ status_events[1].callId = "c2"
    /\ status_events[2].callId = "c1"

----------------------------------------------------------------------------
(* C6 *)

C6_Expected(status) ==
    IF status = "joined" THEN <<"bot_joined">>
    ELSE IF status = "left" THEN <<"finalize_meeting">>
    ELSE IF status = "error" THEN <<"alert">>
    ELSE << >>

\* C6: for every accepted status event the hooks run are decided by exact
\* equality of its status string: "joined", "left" and "error" run their own
\* hook once and nothing else, any other string runs none, and in each case
\* the event is appended and acknowledged; a transcription runs no hook.
C6_HookDispatch ==
    [][\A c \in Callers :
          /\ (Served(c, "status") /\ resp'[c].code = 200) =>
                /\ HooksIn(trace'[c]) = C6_Expected(req[c].raw.status.s)
                /\ resp'[c].body = [received |-> TRUE, callId |-> req[c].raw.callId.s]
                /\ Len(status_events') = Len(status_events) + 1
                /\ Carries("status", status_events'[Len(status_events')], req[c].raw)
          /\ Served(c, "transcription") => HooksIn(trace'[c]) = << >>]_vars

\* "Joined" was accepted and stored with no hook, "joined" with its hook
C6_Witness ==
    /\ pc["a"] = "idle" /\ req["a"].kind = "status"
    /\ req["a"].raw.status.s = "Joined"
    /\ resp["a"].code = 200
    /\ HooksIn(trace["a"]) = << >>
    /\ pc["b"] = "idle" /\ req["b"].kind = "status"
    /\ req["b"].raw.status.s = "joined"
    /\ HooksIn(trace["b"]) = <<"bot_joined">>
    /\ Len(status_events) = 2

----------------------------------------------------------------------------
(* C7 *)

C7_Matching(events, id) == SelectSeq(events, LAMBDA e : e.callId = id)

\* C7: getEvents(callId) for a provided callId returns, for each list, exactly
\* the stored events whose callId equals the argument, in arrival order and
\* without a limit, and two empty lists when none matches.
C7_FilterExact ==
    [][\A c \in Callers :
          (Served(c, "events") /\ req[c].call_id.given) =>
              \A kind \in Kinds :
                  ListOf(resp'[c].body, kind)
                      = C7_Matching(StoreOf(kind), req[c].call_id.value)]_vars

----------------------------------------------------------------------------
(* C8 *)

\* C8: getEvents answers the filtered view whenever a callId is provided, the
\* empty string included, and the summary view only when none is provided.
C8_ShapeByPresence ==
    [][\A c \in Callers :
          Served(c, "events") =>
              DOMAIN resp'[c].body =
                  IF req[c].call_id.given THEN FilteredKeys ELSE SummaryKeys]_vars

----------------------------------------------------------------------------
(* C9 *)

\* C9: no stored event of either list has an empty callId.
C9_CallIdNeverEmpty ==
    \A kind \in Kinds : \A i \in DOMAIN StoreOf(kind) : StoreOf(kind)[i].callId # ""

----------------------------------------------------------------------------
(* C10 *)

\* C10: every stored transcription event has durationMs >= 0; a body with a
\* negative durationMs is answered with the validation error and not appended.
C10_DurationNonNegative ==
    /\ \A i \in DOMAIN transcription_events : transcription_events[i].durationMs >= 0
    /\ \A c \in Callers :
          (/\ pc[c] = "idle" /\ req[c].kind = "transcription"
           /\ req[c].raw.durationMs.t = "int" /\ req[c].raw.durationMs.n < 0)
          => resp[c].code = 422

----------------------------------------------------------------------------
(* C11 *)

----------------------------------------------------------------------------
(* C12 *)

\* step x runs before step y
Before(steps, x, y) ==
    \E i, j \in DOMAIN steps : i < j /\ steps[i] = x /\ steps[j] = y

\* C12: when receiveStatus or receiveTranscription returns
\* {received: true, callId}, the event has already been appended, the hook of
\* a recognized status has already run, and the callId returned is the
\* body's.
C12_AckAfterAppend ==
    [][\A c \in Callers : \A kind \in Kinds :
          (Served(c, kind) /\ resp'[c].code = 200) =>
              /\ Before(trace'[c], "append", "return")
              /\ \A i \in DOMAIN trace'[c] : trace'[c][i] = "return" => i = Len(trace'[c])
              /\ (kind = "status" /\ req[c].raw.status.s \in {"joined", "left", "error"})
                    => \E h \in Hooks : Before(trace'[c], h, "return")
              /\ Len(StoreOf(kind)') = Len(StoreOf(kind)) + 1
              /\ Carries(kind, StoreOf(kind)'[Len(StoreOf(kind)')], req[c].raw)
              /\ resp'[c].body.received = TRUE
              /\ resp'[c].body.callId = req[c].raw.callId.s]_vars

\* a "left" status of call c2 and a transcription were both acknowledged
C12_Witness ==
    /\ pc["a"] = "idle" /\ req["a"].kind = "status"
    /\ req["a"].raw.status.s = "left"
    /\ resp["a"] = Ok([received |-> TRUE, callId |-> "c1"])
    /\ trace["a"] = <<"validate", "log", "append", "finalize_meeting", "return">>
    /\ pc["b"] = "idle" /\ req["b"].kind = "transcription"
    /\ resp["b"].code = 200 /\ resp["b"].body.callId = "c2"
    /\ Len(status_events) = 1 /\ Len(transcription_events) = 1

----------------------------------------------------------------------------
(* C13 *)

IsPrefix(s, t) == Len(s) <= Len(t) /\ SubSeq(t, 1, Len(s)) = s

\* C13: across every step that serves no clearEvents each list keeps the
\* events it had, unchanged and in place, as a prefix; and a list grows only
\* in a step that serves a webhook of its kind with success, by one event.
C13_AppendOnly ==
    [][(\A c \in Callers : ~Served(c, "clear")) =>
          \A kind \in Kinds :
              /\ IsPrefix(StoreOf(kind), StoreOf(kind)')
              /\ StoreOf(kind)' # StoreOf(kind) =>
                    /\ Len(StoreOf(kind)') = Len(StoreOf(kind)) + 1
                    /\ \E c \in Callers : Served(c, kind) /\ resp'[c].code = 200]_vars

\* two status events of different calls are stored, the second sent by b
C13_Witness ==
    /\ Len(status_events) = 2
    /\ status_events[1].callId = "c2"
    /\ status_events[2].callId = ""
    /\ req["b"].kind = "status" /\ req["b"].raw.callId.s = ""
    /\ pc["b"] = "idle"

----------------------------------------------------------------------------
(* C14 *)

\* C14: clearEvents is atomic for appends and reads: after every step, for
\* each kind, the acknowledged appends number the events now stored plus the
\* counts all clears returned; and a summary read reports for both lists the
\* appends acknowledged since the last clear, never one list cleared and the
\* other not.
C14_ClearAtomic ==
    [][/\ \A kind \in Kinds :
             acked'[kind] = Len(StoreOf(kind)') + cleared'[kind]
       /\ \A c \in Callers :
             (Served(c, "events") /\ ~req[c].call_id.given) =>
                 /\ resp'[c].body.total_status_events = Len(ackLog.status)
                 /\ resp'[c].body.total_transcription_events = Len(ackLog.transcription)
       /\ \A c \in Callers :
             Served(c, "clear") =>
                 /\ resp'[c].body.status_events_cleared = Len(ackLog.status)
                 /\ resp'[c].body.transcription_events_cleared = Len(ackLog.transcription)
                 /\ status_events' = << >> /\ transcription_events' = << >>]_vars

\* a clear returned (2, 1) and an append was acknowledged after it
C14_Witness ==
    /\ cleared = [calls |-> 1, status |-> 2, transcription |-> 0]
    /\ acked = [status |-> 3, transcription |-> 0]
    /\ Len(status_events) = 1
    /\ \A c \in Callers : pc[c] = "idle"

----------------------------------------------------------------------------
(* C15 *)

\* C15: in each list, an event stored earlier has a received_at no later
\* than that of an event stored after it, whatever the wall clock does.
C15_ReceivedAtMonotonic ==
    \A kind \in Kinds :
        \A i, j \in DOMAIN StoreOf(kind) :
            i < j => StoreOf(kind)[i].received_at.instant
                         <= StoreOf(kind)[j].received_at.instant

----------------------------------------------------------------------------
(* C16 *)

\* C16: a step serving receiveStatus leaves the transcription list as it
\* was, one serving receiveTranscription leaves the status list as it was,
\* and one serving getEvents (summary or filtered), health or the root
\* descriptor leaves both as they were.
C16_Frame ==
    [][\A c \in Callers :
          /\ Served(c, "status") => transcription_events' = transcription_events
          /\ Served(c, "transcription") => status_events' = status_events
          /\ \A kind \in {"events", "health", "root"} :
                Served(c, kind) =>
                    /\ status_events' = status_events
                    /\ transcription_events' = transcription_events]_vars

\* with a status event of call c2 stored, a transcription of the same call
\* was accepted: each list holds its own event
C16_Witness ==
    /\ Len(status_events) = 1 /\ status_events[1].callId = "c2"
    /\ Len(transcription_events) = 1 /\ transcription_events[1].callId = "c2"
    /\ pc["a"] = "idle" /\ req["a"].kind = "transcription" /\ resp["a"].code = 200
    /\ pc["b"] = "idle" /\ req["b"].kind = "status" /\ resp["b"].code = 200

----------------------------------------------------------------------------
(* C17 *)

\* C17 as stated: in a receiveStatus request the hook of the event is
\* dispatched before the event is appended.
C17_HookBeforeAppend ==
    [][\A c \in Callers :
          Served(c, "status") =>
              \A i \in DOMAIN trace'[c] :
                  trace'[c][i] \in Hooks => Before(trace'[c], trace'[c][i], "append")]_vars

\* C17 amended: in a receiveStatus request the steps run in the order
\* validation, append, hook dispatch, acknowledgement: the event is in the
\* list before its hook is dispatched, so it is stored even when the hook
\* does not return.
C17_AppendBeforeHook ==
    [][\A c \in Callers :
          Served(c, "status") =>
              LET steps == trace'[c] IN
              /\ steps[1] = "validate"
              /\ \A i \in DOMAIN steps :
                    /\ steps[i] = "append" => i > 1
                    /\ steps[i] \in Hooks =>
                          /\ Before(steps, "append", steps[i])
                          /\ Len(status_events') = Len(status_events) + 1
                          /\ Carries("status", status_events'[Len(status_events')],
                                     req[c].raw)
                    /\ steps[i] = "return" =>
                          /\ i = Len(steps)
                          /\ Before(steps, "append", "return")
                          /\ \A j \in DOMAIN steps : steps[j] \in Hooks => j < i]_vars

\* one "joined" was acknowledged after its hook, one "error" is stored
\* though its hook raised
C17_Witness ==
    /\ pc["a"] = "idle" /\ req["a"].kind = "status"
    /\ trace["a"] = <<"validate", "log", "append", "bot_joined", "return">>
    /\ resp["a"].code = 200
    /\ pc["b"] = "idle" /\ req["b"].kind = "status"
    /\ req["b"].raw.status.s = "error"
    /\ resp["b"] = InternalServerError
    /\ Len(status_events) = 2
    /\ status_events[2].status = "error"

----------------------------------------------------------------------------
(* C18 *)

\* request i of the run answered 200
Answered200(i) == http[i].outcome.raised = "" /\ http[i].outcome.status_code = 200
\* request j is a join answered 200 with a body holding a callId
JoinWithCallId(j) ==
    /\ http[j].request = "join" /\ Answered200(j)
    /\ http[j].outcome.body.form = "object"
    /\ "callId" \in http[j].outcome.body.keys
\* ... the body holding scenarioId and status too, the callId not empty
JoinComplete(j) ==
    /\ JoinWithCallId(j)
    /\ JoinKeys \subseteq http[j].outcome.body.keys
    /\ http[j].outcome.body.callId # ""
LeavesFor(id) == {i \in DOMAIN http : http[i].request = "leave" /\ http[i].arg = id}
\* every leave request names the callId of an earlier join answered 200
LeaveOnlyJoined ==
    \A i \in DOMAIN http :
        http[i].request = "leave" =>
            \E j \in 1..(i - 1) :
                JoinWithCallId(j) /\ http[j].outcome.body.callId = http[i].arg
\* join j is followed by the active-calls request, then one leave for its callId
FollowedByLeave(j) ==
    LET id == http[j].outcome.body.callId IN
    /\ Len(http) = j => hpc \in {"sleep", "active"}
    /\ Len(http) > j => http[j + 1].request = "active"
    /\ Len(http) = j + 1 => hpc = "leave"
    /\ Len(http) > j + 1 => LeavesFor(id) = {j + 2}
\* a failed health check: exit status 1, and no request but the health one
HealthFailureExits ==
    (http # << >> /\ ~Answered200(1)) =>
        /\ hpc = "exited" /\ exit_status = 1
        /\ Len(http) = 1 /\ http[1].request = "health"

\* C18 as stated: a leave is sent only for a callId a join answering 200
\* returned; every join answering 200 with a callId is followed by the
\* active-calls request and then exactly one leave for that callId; a failed
\* health check ends the run with status 1 and no further request.
C18_LeaveFollowsJoin ==
    /\ LeaveOnlyJoined
    /\ \A j \in DOMAIN http : JoinWithCallId(j) => FollowedByLeave(j)
    /\ HealthFailureExits

\* C18 amended: the same, for every join answering 200 with a JSON object
\* that holds callId, scenarioId and status and whose callId is not empty.
C18_LeaveFollowsCompleteJoin ==
    /\ LeaveOnlyJoined
    /\ \A j \in DOMAIN http : JoinComplete(j) => FollowedByLeave(j)
    /\ HealthFailureExits

\* a run that joined as c1, listed the calls, left c1 and completed
C18_Witness ==
    /\ hpc = "done"
    /\ Len(http) = 5
    /\ JoinComplete(2) /\ http[2].arg = "https://teams/m1"
    /\ http[3].request = "active"
    /\ http[4].request = "leave" /\ http[4].arg = "c1"
    /\ main_call_id = StrValue("c1")

----------------------------------------------------------------------------
(* C19 *)

AudioRequests == Cardinality({i \in DOMAIN http : http[i].request = "audio"})
Completed == hpc = "done" /\ exit_status = 0 /\ AudioRequests = 1
\* the prompt has read a line
PromptReturned ==
    hpc \in {"join", "sleep", "active", "leave", "audio", "complete", "done"}

\* C19 as stated: every run that passes the health check reaches "Test
\* complete" having sent the audio-files request exactly once, whatever the
\* join, active-calls, leave and audio-files requests end as.
C19_AlwaysCompletes == [](hpc = "prompt" => <>Completed)

\* C19 amended: every run that passes the health check and whose prompt
\* reads a line reaches "Test complete" having sent the audio-files request
\* exactly once, whatever the requests end as; no helper lets a request
\* failure leave it, so the only exception that ends a run is the prompt's
\* end of input.
C19_CompletesAfterPrompt ==
    /\ [](PromptReturned => <>Completed)
    /\ [](hpc = "crashed" => Len(http) = 1 /\ http[1].request = "health")
    /\ [](AudioRequests <= 1)

\* a run completed though the active-calls request raised, the leave was
\* answered 404 and the audio-files body was not JSON
C19_Witness ==
    /\ Completed
    /\ Len(http) = 5
    /\ http[3].outcome = Raised("ConnectionError")
    /\ http[4].outcome.status_code = 404
    /\ http[5].outcome = Response(200, JsonInvalid)

====
